---- MODULE Spec2Model ----
(***************************************************************************)
(* CryptoHelper of hdwallet-native (src/crypto/CryptoHelper.ts): the       *)
(* orchestration of a CryptoEngine into encrypt-then-MAC, double-HMAC      *)
(* comparison, HKDF expansion and password key derivation.                 *)
(*                                                                         *)
(* A byte buffer is a sequence of numbers in 0..255.  A call of one of the *)
(* asynchronous methods is a record of its locals and its position; every  *)
(* `await` of an engine operation is one step, and steps of different      *)
(* calls interleave.                                                       *)
(***************************************************************************)
EXTENDS Integers, Sequences, FiniteSets, TLC

(* ------------------------------ bounds -------------------------------- *)
\* concurrent logical flows calling into the one CryptoHelper
NumFlows == 2
\* distinct answers the engine's CSPRNG may give to one randomBytes request
NumRandom == 2
\* longest plaintext handed to aesEncrypt
MaxDataLen == 1
\* longest buffer handed to compare by a caller
MaxCmpLen == 1

(* ------------------------- program constants --------------------------- *)
HashLen == 32
IvLen == 16
CompareKeyLen == 32
Pbkdf2KeyLen == 32
ScryptIterations == 16384
ScryptBlockSize == 8
ScryptParallelism == 1
ScryptKeyLength == 32
HashKeyIterations == 1
DerivedKeySize == 32
\* AES block size of the engine's CBC mode
BlockLen == 16

(* ------------------------------ values -------------------------------- *)
\* null / undefined where a buffer is expected
Null == <<-1>>

byteLength(buf) == Len(buf)

\* the buffer with bit `bit` of byte `idx` flipped
FlipBit(buf, idx, bit) ==
    LET p == 2 ^ bit
        v == buf[idx]
        w == IF (v \div p) % 2 = 1 THEN v - p ELSE v + p
    IN  [buf EXCEPT ![idx] = w]

(* ------------------------ the CryptoEngine ----------------------------- *)
KeyByte(key, i) == IF Len(key) = 0 THEN 0 ELSE key[((i - 1) % Len(key)) + 1]

RECURSIVE Fold(_, _, _)
Fold(data, i, stride) ==
    IF i > Len(data) THEN 0 ELSE data[i] + Fold(data, i + stride, stride)

\* randomBytes(n): any of the answers the CSPRNG may give
RandomBytes(n) == { [i \in 1..n |-> (37 * r + i) % 256] : r \in 1..NumRandom }

\* hmac(data, key): a deterministic 32-byte digest; on buffers of one length
\* up to 32 bytes it is injective in data for a fixed key
EngineHmac(data, key) ==
    [i \in 1..HashLen |->
        (Fold(data, i, HashLen) + KeyByte(key, i) + Len(data)) % 256]

\* PKCS-style padding to whole blocks: 1..BlockLen bytes of the pad count
PadBlocks(data) ==
    LET pad == BlockLen - (Len(data) % BlockLen)
    IN  data \o [i \in 1..pad |-> pad]

\* encrypt(data, key, iv): CBC chaining, block j is masked with the key and
\* with the previous ciphertext block (the iv for the first block)
RECURSIVE CbcEncrypt(_, _, _, _)
CbcEncrypt(plain, key, prev, done) ==
    IF Len(plain) = 0 THEN done
    ELSE LET blk == [i \in 1..BlockLen |->
                        (plain[i] + KeyByte(key, i) + KeyByte(prev, i)) % 256]
         IN  CbcEncrypt(SubSeq(plain, BlockLen + 1, Len(plain)), key, blk,
                        done \o blk)

EngineEncrypt(data, key, iv) == CbcEncrypt(PadBlocks(data), key, iv, <<>>)

RECURSIVE CbcDecrypt(_, _, _, _)
CbcDecrypt(cipher, key, prev, done) ==
    IF Len(cipher) = 0 THEN done
    ELSE LET blk == SubSeq(cipher, 1, BlockLen)
             out == [i \in 1..BlockLen |->
                        (blk[i] + 512 - KeyByte(key, i) - KeyByte(prev, i)) % 256]
         IN  CbcDecrypt(SubSeq(cipher, BlockLen + 1, Len(cipher)), key, blk,
                        done \o out)

\* decrypt(data, key, iv): the inverse of encrypt; fails on a ciphertext that
\* is not whole blocks or whose padding is malformed
EngineDecrypt(data, key, iv) ==
    IF Len(data) = 0 \/ Len(data) % BlockLen # 0
    THEN [ok |-> FALSE, out |-> <<>>]
    ELSE LET padded == CbcDecrypt(data, key, iv, <<>>)
             pad == padded[Len(padded)]
         IN  IF /\ pad \in 1..BlockLen
                /\ \A i \in (Len(padded) - pad + 1)..Len(padded) : padded[i] = pad
             THEN [ok |-> TRUE, out |-> SubSeq(padded, 1, Len(padded) - pad)]
             ELSE [ok |-> FALSE, out |-> <<>>]

\* pbkdf2(password, salt, {iterations, keyLen})
EnginePbkdf2(password, salt, iterations, keyLen) ==
    [i \in 1..keyLen |->
        (Fold(password, i, keyLen) + 3 * Fold(salt, i, keyLen)
            + 5 * Len(password) + 7 * Len(salt) + iterations + i) % 256]

\* scrypt(password, salt, {iterations, blockSize, parallelism, keyLength})
EngineScrypt(password, salt, iterations, blockSize, parallelism, keyLength) ==
    [i \in 1..keyLength |->
        (11 * Fold(password, i, keyLength) + 13 * Fold(salt, i, keyLength)
            + Len(password) + 3 * Len(salt)
            + iterations + 17 * blockSize + 19 * parallelism + 2 * i) % 256]

(* ------------------- utils (./utils) and value classes ------------------ *)
\* a text is a sequence of code points; its UTF-8 bytes
RECURSIVE Utf8Encode(_)
Utf8Encode(text) ==
    IF Len(text) = 0 THEN <<>>
    ELSE LET c == Head(text)
             enc == IF c < 128 THEN <<c>>
                    ELSE IF c < 2048 THEN <<192 + (c \div 64), 128 + (c % 64)>>
                    ELSE <<224 + (c \div 4096), 128 + ((c \div 64) % 64),
                           128 + (c % 64)>>
         IN  enc \o Utf8Encode(Tail(text))

IsCont(buf, i) == i <= Len(buf) /\ buf[i] \in 128..191

\* bytes to text; a byte that starts no well-formed sequence decodes to U+FFFD
RECURSIVE Utf8Decode(_, _)
Utf8Decode(buf, i) ==
    IF i > Len(buf) THEN <<>>
    ELSE LET b == buf[i]
         IN  IF b < 128 THEN <<b>> \o Utf8Decode(buf, i + 1)
             ELSE IF b \in 194..223 /\ IsCont(buf, i + 1)
             THEN <<(b - 192) * 64 + (buf[i + 1] - 128)>> \o Utf8Decode(buf, i + 2)
             ELSE IF b \in 224..239 /\ IsCont(buf, i + 1) /\ IsCont(buf, i + 2)
             THEN <<(b - 224) * 4096 + (buf[i + 1] - 128) * 64 + (buf[i + 2] - 128)>>
                    \o Utf8Decode(buf, i + 3)
             ELSE <<65533>> \o Utf8Decode(buf, i + 1)

fromBufferToUtf8(buf) == Utf8Decode(buf, 1)

fromUtf8ToArray(text) == Utf8Encode(text)

\* a JavaScript value handed where a text is expected
Str(text) == [type |-> "string", val |-> text]
Num(n) == [type |-> "number", val |-> <<n>>]
Undefined == [type |-> "undefined", val |-> <<>>]

IsString(v) == v.type = "string"

Truthy(v) ==
    CASE v.type = "string" -> Len(v.val) > 0
      [] v.type = "number" -> v.val # <<0>>
      [] OTHER -> FALSE

\* toArrayBuffer: a text becomes its UTF-8 bytes, a buffer is kept
toArrayBuffer(v) == IF IsString(v) THEN Utf8Encode(v.val) ELSE v.val

Buf(bytes) == [type |-> "buffer", val |-> bytes]

\* base64 text is a sequence of alphabet indices 0..63, with 64 for "="
B64Pad == 64

RECURSIVE fromB64ToArray(_)
fromB64ToArray(s) ==
    IF Len(s) < 4 THEN <<>>
    ELSE LET a == s[1]
             b == s[2]
             c == s[3]
             d == s[4]
             b1 == (a * 4 + (b \div 16)) % 256
             b2 == ((b % 16) * 16 + (c \div 4)) % 256
             b3 == ((c % 4) * 64 + d) % 256
             rest == fromB64ToArray(SubSeq(s, 5, Len(s)))
         IN  IF c = B64Pad THEN <<b1>>
             ELSE IF d = B64Pad THEN <<b1, b2>>
             ELSE <<b1, b2, b3>> \o rest

RECURSIVE fromBufferToB64(_)
fromBufferToB64(buf) ==
    IF Len(buf) = 0 THEN <<>>
    ELSE IF Len(buf) = 1
    THEN <<buf[1] \div 4, (buf[1] % 4) * 16, B64Pad, B64Pad>>
    ELSE IF Len(buf) = 2
    THEN <<buf[1] \div 4, (buf[1] % 4) * 16 + (buf[2] \div 16),
           (buf[2] % 16) * 4, B64Pad>>
    ELSE <<buf[1] \div 4, (buf[1] % 4) * 16 + (buf[2] \div 16),
           (buf[2] % 16) * 4 + (buf[3] \div 64), buf[3] % 64>>
           \o fromBufferToB64(SubSeq(buf, 4, Len(buf)))

\* SymmetricCryptoKey; NoKey is null / undefined where a key is expected
SymmetricCryptoKey(hashKey, encKey, macKey) ==
    [isNull |-> FALSE, hashKey |-> hashKey, encKey |-> encKey, macKey |-> macKey]

NoKey == [isNull |-> TRUE, hashKey |-> Null, encKey |-> Null, macKey |-> Null]

\* new EncryptedObject(): every field still undefined
EncryptedObject == [key |-> NoKey, iv |-> Null, data |-> Null, mac |-> Null]

\* the CipherString of the three fields: each in base64
CipherString(e) ==
    [data |-> fromBufferToB64(e.data), iv |-> fromBufferToB64(e.iv),
     mac |-> fromBufferToB64(e.mac)]

NoCipher == [data |-> <<>>, iv |-> <<>>, mac |-> <<>>]

(* ------------------------------ state ---------------------------------- *)
\* calls[p]: the call flow p is in (its parameters, locals and position);
\* store: the EncryptedObject the callers hold, with the plaintext it was made
\* from; keyring: the key the callers hold from makeKey, with its credentials
VARIABLES calls, store, keyring

vars == <<calls, store, keyring>>

Flows == 1..NumFlows

NoTamper == [field |-> "none", idx |-> 0, bit |-> 0]

NoSrc == [d |-> Null, e |-> EncryptedObject]

\* a flow that is in no call: every local is unset
NoCall ==
    [op |-> "idle", pc |-> "idle", status |-> "idle", error |-> "none",
     engineLog |-> <<>>, rand |-> <<>>,
     data |-> Null, iv |-> Null, mac |-> Null, key |-> NoKey,
     obj |-> EncryptedObject, macData |-> Null, computedMac |-> Null,
     macsMatch |-> "unset", plain |-> Null,
     a |-> Null, b |-> Null, macKey |-> Null, mac1 |-> Null, mac2 |-> Null,
     visited |-> 0, equal |-> "unset",
     prk |-> Null, info |-> Null, size |-> 0, okm |-> Null, previousT |-> Null,
     t |-> Null, i |-> 0, n |-> 0, ret |-> "none",
     password |-> Undefined, email |-> Undefined, salt |-> Null,
     masterKey |-> Null, hashKey |-> Null, stretchedKey |-> Null,
     newKey |-> NoKey, cipher |-> NoCipher, text |-> <<>>,
     src |-> NoSrc, tamper |-> NoTamper]

Running(c) == c.status = "running"

Ended(c) == c.status \in {"returned", "thrown"}

Throw(c, e) == [c EXCEPT !.status = "thrown", !.error = e, !.pc = "done"]

Return(c) == [c EXCEPT !.status = "returned", !.pc = "done"]

\* the call asks the engine for operation `name`
Engine(c, name) == [c EXCEPT !.engineLog = Append(@, name)]

InvalidArgument ==
    {"RequiredData", "RequiredIv", "RequiredMac", "RequiredKey",
     "RequiredPasswordEmail"}

AuthenticationFailure == "HmacInvalid"

\* `x == null || !x?.byteLength`
Missing(buf) == buf = Null \/ byteLength(buf) = 0

\* `key == null || key.encKey == null || key.macKey == null`
BadKey(key) == key.isNull \/ key.encKey = Null \/ key.macKey = Null

\* a variant of MacData: the data first and the iv after it
MacDataSwapped(iv, data) ==
    [i \in 1..(byteLength(iv) + byteLength(data)) |->
        IF i <= byteLength(data) THEN data[i] ELSE iv[i - byteLength(data)]]

\* new Uint8Array(iv.byteLength + data.byteLength) with iv set at 0 and data
\* set at iv.byteLength
MacData(iv, data) ==
    [i \in 1..(byteLength(iv) + byteLength(data)) |->
        IF i <= byteLength(iv) THEN iv[i] ELSE data[i - byteLength(iv)]]

(* ------------------------------ compare -------------------------------- *)
\* a variant of the byte loop that never looks at the first position
RECURSIVE CompareLoopSkipFirst(_, _, _)
CompareLoopSkipFirst(arr1, arr2, i) ==
    IF i > Len(arr2) THEN [equal |-> TRUE, visited |-> i - 1]
    ELSE IF i > 1 /\ arr1[i] # arr2[i] THEN [equal |-> FALSE, visited |-> i]
    ELSE CompareLoopSkipFirst(arr1, arr2, i + 1)

\* a variant of the byte loop that inspects every position before it answers
CompareLoopFullScan(arr1, arr2, i) ==
    [equal |-> \A j \in i..Len(arr2) : arr1[j] = arr2[j], visited |-> Len(arr2)]

\* the byte loop of compare, from position i (1-based): how it ends and how
\* many positions it inspected
RECURSIVE CompareLoop(_, _, _)
CompareLoop(arr1, arr2, i) ==
    IF i > Len(arr2) THEN [equal |-> TRUE, visited |-> i - 1]
    ELSE IF arr1[i] # arr2[i] THEN [equal |-> FALSE, visited |-> i]
    ELSE CompareLoop(arr1, arr2, i + 1)

CompareMacs(mac1, mac2) ==
    IF byteLength(mac1) # byteLength(mac2)
    THEN [equal |-> FALSE, visited |-> 0]
    ELSE CompareLoop(mac1, mac2, 1)

\* compare(a, b) up to its first await
CompareStart(c, a, b) ==
    [c EXCEPT !.a = a, !.b = b, !.pc = "cmp_randomBytes"]

\* a variant of CompareReturn in which aesDecrypt goes on after a mismatch
CompareReturnNoThrow(c, r) ==
    LET c1 == [c EXCEPT !.equal = IF r.equal THEN "true" ELSE "false",
                        !.visited = r.visited]
    IN  IF c.op = "compare" THEN Return(c1)
        ELSE [c1 EXCEPT !.macsMatch = c1.equal, !.pc = "dec_decrypt"]

\* what follows compare's return: the caller is done (compare itself), or
\* aesDecrypt throws on a mismatch and goes on to decrypt on a match
CompareReturn(c, r) ==
    LET c1 == [c EXCEPT !.equal = IF r.equal THEN "true" ELSE "false",
                        !.visited = r.visited]
    IN  IF c.op = "compare" THEN Return(c1)
        ELSE LET c2 == [c1 EXCEPT !.macsMatch = c1.equal]
             IN  IF ~r.equal THEN Throw(c2, AuthenticationFailure)
                 ELSE [c2 EXCEPT !.pc = "dec_decrypt"]

CallCompare(p, a, b) ==
    /\ calls[p].status = "idle"
    /\ calls' = [calls EXCEPT ![p] =
                    CompareStart([NoCall EXCEPT !.op = "compare",
                                                !.status = "running"], a, b)]
    /\ UNCHANGED <<store, keyring>>

\* line 20: const macKey = await this.#engine.randomBytes(32)
CmpRandomBytes(p) ==
    /\ Running(calls[p]) /\ calls[p].pc = "cmp_randomBytes"
    /\ \E r \in RandomBytes(CompareKeyLen) :
          calls' = [calls EXCEPT ![p] =
                       [Engine(@, "randomBytes") EXCEPT
                           !.macKey = r, !.rand = Append(@, r),
                           !.pc = "cmp_hmac1"]]
    /\ UNCHANGED <<store, keyring>>

\* line 22: const mac1 = await this.#engine.hmac(a, macKey)
CmpHmac1(p) ==
    /\ Running(calls[p]) /\ calls[p].pc = "cmp_hmac1"
    /\ calls' = [calls EXCEPT ![p] =
                    [Engine(@, "hmac") EXCEPT
                        !.mac1 = EngineHmac(calls[p].a, calls[p].macKey),
                        !.pc = "cmp_hmac2"]]
    /\ UNCHANGED <<store, keyring>>

\* lines 23-37: mac2, the length check and the byte loop
CmpHmac2(p) ==
    /\ Running(calls[p]) /\ calls[p].pc = "cmp_hmac2"
    /\ LET mac2 == EngineHmac(calls[p].b, calls[p].macKey)
           c1 == [Engine(calls[p], "hmac") EXCEPT !.mac2 = mac2]
       IN  calls' = [calls EXCEPT ![p] =
                        CompareReturn(c1, CompareMacs(c1.mac1, mac2))]
    /\ UNCHANGED <<store, keyring>>

(* ------------------------------ aesEncrypt ----------------------------- *)
\* lines 41-44, up to the first await
AesEncryptStart(c, data, key) ==
    LET c1 == [c EXCEPT !.data = data, !.key = key]
    IN  IF Missing(data) THEN Throw(c1, "RequiredData")
        ELSE IF BadKey(key) THEN Throw(c1, "RequiredKey")
        ELSE [c1 EXCEPT !.pc = "enc_randomBytes"]

CallAesEncrypt(p, data, key) ==
    /\ calls[p].status = "idle"
    /\ calls' = [calls EXCEPT ![p] =
                    AesEncryptStart([NoCall EXCEPT !.op = "aesEncrypt",
                                                   !.status = "running"],
                                    data, key)]
    /\ UNCHANGED <<store, keyring>>

\* lines 45-49: the iv, and the new object's key and iv
EncSetIv(c, iv) ==
    [c EXCEPT !.iv = iv, !.rand = Append(@, iv),
              !.obj = [EncryptedObject EXCEPT !.key = c.key, !.iv = iv],
              !.pc = "enc_encrypt"]

\* a variant of EncRandomBytes that keeps the iv in a field of the helper,
\* which every aesEncrypt call about to encrypt then reads
EncRandomBytesShared(p) ==
    /\ Running(calls[p]) /\ calls[p].pc = "enc_randomBytes"
    /\ \E r \in RandomBytes(IvLen) :
          calls' = [q \in Flows |->
                       IF q = p THEN EncSetIv(Engine(calls[p], "randomBytes"), r)
                       ELSE IF Running(calls[q]) /\ calls[q].pc = "enc_encrypt"
                       THEN [calls[q] EXCEPT !.iv = r]
                       ELSE calls[q]]
    /\ UNCHANGED <<store, keyring>>

EncRandomBytes(p) ==
    /\ Running(calls[p]) /\ calls[p].pc = "enc_randomBytes"
    /\ \E r \in RandomBytes(IvLen) :
          calls' = [calls EXCEPT ![p] = EncSetIv(Engine(@, "randomBytes"), r)]
    /\ UNCHANGED <<store, keyring>>

\* lines 50-54: the ciphertext, then the MAC input iv || data
EncSetData(c) ==
    LET data == EngineEncrypt(c.data, c.key.encKey, c.iv)
        obj == [c.obj EXCEPT !.data = data]
    IN  [c EXCEPT !.obj = obj, !.macData = MacData(obj.iv, obj.data),
                  !.pc = "enc_hmac"]

EncEncrypt(p) ==
    /\ Running(calls[p]) /\ calls[p].pc = "enc_encrypt"
    /\ calls' = [calls EXCEPT ![p] = EncSetData(Engine(@, "encrypt"))]
    /\ UNCHANGED <<store, keyring>>

\* lines 55-57: the MAC under obj.key.macKey; the object is returned
EncSetMac(c) ==
    Return([c EXCEPT !.obj.mac = EngineHmac(c.macData, c.obj.key.macKey)])

EncHmac(p) ==
    /\ Running(calls[p]) /\ calls[p].pc = "enc_hmac"
    /\ calls' = [calls EXCEPT ![p] = EncSetMac(Engine(@, "hmac"))]
    /\ UNCHANGED <<store, keyring>>

(* ------------------------------ aesDecrypt ----------------------------- *)
\* lines 66-77, up to the first await
AesDecryptStart(c, data, iv, mac, key) ==
    LET c1 == [c EXCEPT !.data = data, !.iv = iv, !.mac = mac, !.key = key]
    IN  IF Missing(data) THEN Throw(c1, "RequiredData")
        ELSE IF Missing(iv) THEN Throw(c1, "RequiredIv")
        ELSE IF Missing(mac) THEN Throw(c1, "RequiredMac")
        ELSE IF BadKey(key) THEN Throw(c1, "RequiredKey")
        ELSE [c1 EXCEPT !.macData = MacData(iv, data), !.pc = "dec_hmac"]

CallAesDecrypt(p, in) ==
    /\ calls[p].status = "idle"
    /\ calls' = [calls EXCEPT ![p] =
                    AesDecryptStart([NoCall EXCEPT !.op = "aesDecrypt",
                                                   !.status = "running",
                                                   !.src = in.src,
                                                   !.tamper = in.tamper],
                                    in.data, in.iv, in.mac, in.key)]
    /\ UNCHANGED <<store, keyring>>

\* a variant of DecSetComputedMac that takes the MAC under key.encKey
DecSetComputedMacEncKey(c) ==
    LET computedMac == EngineHmac(c.macData, c.key.encKey)
    IN  CompareStart([c EXCEPT !.computedMac = computedMac], c.mac, computedMac)

\* a variant of DecSetComputedMac that compares the expected MAC with itself
DecSetComputedMacSelf(c) ==
    LET computedMac == EngineHmac(c.macData, c.key.macKey)
    IN  CompareStart([c EXCEPT !.computedMac = computedMac], computedMac,
                     computedMac)

\* lines 78-79: the expected MAC, then compare(mac, computedMac)
DecSetComputedMac(c) ==
    LET computedMac == EngineHmac(c.macData, c.key.macKey)
    IN  CompareStart([c EXCEPT !.computedMac = computedMac], c.mac, computedMac)

DecHmac(p) ==
    /\ Running(calls[p]) /\ calls[p].pc = "dec_hmac"
    /\ calls' = [calls EXCEPT ![p] = DecSetComputedMac(Engine(@, "hmac"))]
    /\ UNCHANGED <<store, keyring>>

\* line 83 (and lines 141-143 of decrypt): the plaintext, which decrypt
\* decodes as UTF-8; a failure of the engine is passed on
DecSetPlain(c) ==
    LET r == EngineDecrypt(c.data, c.key.encKey, c.iv)
    IN  IF ~r.ok THEN Throw(c, "EngineFailure")
        ELSE IF c.op = "decrypt"
        THEN Return([c EXCEPT !.plain = r.out, !.text = fromBufferToUtf8(r.out)])
        ELSE Return([c EXCEPT !.plain = r.out])

DecDecrypt(p) ==
    /\ Running(calls[p]) /\ calls[p].pc = "dec_decrypt"
    /\ calls' = [calls EXCEPT ![p] = DecSetPlain(Engine(@, "decrypt"))]
    /\ UNCHANGED <<store, keyring>>

(* ------------------------------- decrypt ------------------------------- *)
\* lines 138-141: the three fields decoded from base64, then aesDecrypt
DecryptStart(c, cipherString, key) ==
    AesDecryptStart([c EXCEPT !.cipher = cipherString],
                    fromB64ToArray(cipherString.data),
                    fromB64ToArray(cipherString.iv),
                    fromB64ToArray(cipherString.mac), key)

CallDecrypt(p, in) ==
    /\ calls[p].status = "idle"
    /\ calls' = [calls EXCEPT ![p] =
                    DecryptStart([NoCall EXCEPT !.op = "decrypt",
                                                !.status = "running",
                                                !.src = in.src,
                                                !.tamper = in.tamper],
                                 CipherString(in), in.key)]
    /\ UNCHANGED <<store, keyring>>

(* ------------------------------ hkdfExpand ----------------------------- *)
\* Math.ceil(size / hashLen)
Ceil(size, hashLen) == (size + hashLen - 1) \div hashLen

\* lines 95-99: previousT || info || byte(i + 1), for the 0-based round i
BuildT(previousT, info, i) ==
    [j \in 1..(Len(previousT) + Len(info) + 1) |->
        IF j <= Len(previousT) THEN previousT[j]
        ELSE IF j <= Len(previousT) + Len(info) THEN info[j - Len(previousT)]
        ELSE (i + 1) % 256]

\* okm.set(source, offset): a source that does not fit in the target past
\* the offset is a RangeError
Fits(okm, source, offset) == offset + Len(source) <= Len(okm)

OkmSet(okm, source, offset) ==
    [j \in 1..Len(okm) |->
        IF j > offset /\ j <= offset + Len(source) THEN source[j - offset]
        ELSE okm[j]]

\* the texts "enc" and "mac"
InfoEnc == <<101, 110, 99>>
InfoMac == <<109, 97, 99>>

RECURSIVE HkdfReturn(_)
\* lines 88-93 and the first t, up to the first await
HkdfExpandStart(c, prk, info, size, ret) ==
    LET c1 == [c EXCEPT !.prk = prk, !.info = info, !.size = size,
                        !.okm = [j \in 1..size |-> 0], !.previousT = <<>>,
                        !.n = Ceil(size, HashLen), !.i = 0, !.ret = ret]
    IN  IF c1.n = 0 THEN HkdfReturn(c1)
        ELSE [c1 EXCEPT !.t = BuildT(<<>>, info, 0), !.pc = "hkdf_hmac"]

\* what follows hkdfExpand's return: the caller is done (hkdfExpand itself),
\* or makeKey goes on (lines 131-134)
HkdfReturn(c) ==
    IF c.op = "hkdfExpand" THEN Return(c)
    ELSE IF c.ret = "enc"
    THEN HkdfExpandStart([c EXCEPT !.stretchedKey = c.okm], c.masterKey,
                         fromUtf8ToArray(InfoMac), DerivedKeySize, "mac")
    ELSE Return([c EXCEPT !.newKey =
                    SymmetricCryptoKey(c.hashKey, c.stretchedKey, c.okm)])

\* lines 101-104: one round of the loop, after the hmac is back
HkdfRound(c) ==
    LET previousT == EngineHmac(c.t, c.prk)
        c1 == [c EXCEPT !.previousT = previousT]
    IN  IF ~Fits(c.okm, previousT, c.i * HashLen) THEN Throw(c1, "RangeError")
        ELSE LET c2 == [c1 EXCEPT !.okm = OkmSet(c.okm, previousT, c.i * HashLen),
                                  !.i = c.i + 1]
             IN  IF c2.i < c2.n
                 THEN [c2 EXCEPT !.t = BuildT(previousT, c.info, c2.i)]
                 ELSE HkdfReturn(c2)

CallHkdfExpand(p, prk, info, size) ==
    /\ calls[p].status = "idle"
    /\ calls' = [calls EXCEPT ![p] =
                    HkdfExpandStart([NoCall EXCEPT !.op = "hkdfExpand",
                                                   !.status = "running"],
                                    prk, info, size, "none")]
    /\ UNCHANGED <<store, keyring>>

HkdfHmac(p) ==
    /\ Running(calls[p]) /\ calls[p].pc = "hkdf_hmac"
    /\ calls' = [calls EXCEPT ![p] = HkdfRound(Engine(@, "hmac"))]
    /\ UNCHANGED <<store, keyring>>

(* ---------------------------- pbkdf2, makeKey -------------------------- *)
\* lines 110-113: both arguments as bytes, and the key length 32
Pbkdf2(password, salt, iterations) ==
    EnginePbkdf2(toArrayBuffer(password), toArrayBuffer(salt), iterations,
                 Pbkdf2KeyLen)

\* a variant of MakeKeyStart without the two typeof tests
MakeKeyStartNoTypeof(c, password, email) ==
    LET c1 == [c EXCEPT !.password = password, !.email = email]
    IN  IF ~(Truthy(password) /\ Truthy(email))
        THEN Throw(c1, "RequiredPasswordEmail")
        ELSE [c1 EXCEPT !.salt = toArrayBuffer(email), !.pc = "mk_scrypt"]

\* lines 117-121, up to the first await
MakeKeyStart(c, password, email) ==
    LET c1 == [c EXCEPT !.password = password, !.email = email]
    IN  IF ~(Truthy(password) /\ Truthy(email)
             /\ IsString(password) /\ IsString(email))
        THEN Throw(c1, "RequiredPasswordEmail")
        ELSE [c1 EXCEPT !.salt = toArrayBuffer(email), !.pc = "mk_scrypt"]

CallMakeKey(p, password, email) ==
    /\ calls[p].status = "idle"
    /\ calls' = [calls EXCEPT ![p] =
                    MakeKeyStart([NoCall EXCEPT !.op = "makeKey",
                                                !.status = "running"],
                                 password, email)]
    /\ UNCHANGED <<store, keyring>>

\* lines 124-129: the master key
MkSetMaster(c) ==
    [c EXCEPT !.masterKey =
                  EngineScrypt(toArrayBuffer(c.password), c.salt,
                               ScryptIterations, ScryptBlockSize,
                               ScryptParallelism, ScryptKeyLength),
              !.pc = "mk_pbkdf2"]

MkScrypt(p) ==
    /\ Running(calls[p]) /\ calls[p].pc = "mk_scrypt"
    /\ calls' = [calls EXCEPT ![p] = MkSetMaster(Engine(@, "scrypt"))]
    /\ UNCHANGED <<store, keyring>>

\* a variant of MkSetHashKey with the arguments of pbkdf2 exchanged
MkSetHashKeySwapped(c) ==
    HkdfExpandStart([c EXCEPT !.hashKey =
                         Pbkdf2(c.password, Buf(c.masterKey), HashKeyIterations)],
                    c.masterKey, fromUtf8ToArray(InfoEnc), DerivedKeySize, "enc")

\* lines 130-131: hashKey = pbkdf2(key, password, 1), then hkdfExpand "enc"
MkSetHashKey(c) ==
    HkdfExpandStart([c EXCEPT !.hashKey =
                         Pbkdf2(Buf(c.masterKey), c.password, HashKeyIterations)],
                    c.masterKey, fromUtf8ToArray(InfoEnc), DerivedKeySize, "enc")

MkPbkdf2(p) ==
    /\ Running(calls[p]) /\ calls[p].pc = "mk_pbkdf2"
    /\ calls' = [calls EXCEPT ![p] = MkSetHashKey(Engine(@, "pbkdf2"))]
    /\ UNCHANGED <<store, keyring>>

(* ------------------------- what callers pass --------------------------- *)
SampleBytes == {1, 200}

BufsOfLen(n) == [1..n -> SampleBytes]

\* a plaintext of more than one block
LongData == [i \in 1..(BlockLen + 1) |-> 7 * i]

\* plaintexts: missing, empty, more than a block, and the buffers of up to
\* MaxDataLen equal sample bytes
DataInputs ==
    {Null, <<>>, LongData}
        \cup {[i \in 1..n |-> b] : n \in 1..MaxDataLen, b \in SampleBytes}

SampleKey ==
    SymmetricCryptoKey([i \in 1..32 |-> 3], [i \in 1..32 |-> (5 + i) % 256],
                       [i \in 1..32 |-> (2 * i + 9) % 256])

BadKeys ==
    {NoKey, [SampleKey EXCEPT !.encKey = Null], [SampleKey EXCEPT !.macKey = Null]}

KeyInputs == {SampleKey} \cup BadKeys \cup {k.key : k \in keyring}

\* the fields of a held EncryptedObject, as they are
Untampered(s) ==
    [data |-> s.e.data, iv |-> s.e.iv, mac |-> s.e.mac, key |-> s.e.key,
     src |-> s, tamper |-> NoTamper]

\* ... and with one bit of one field flipped
Tampered(s, f, idx, bit) ==
    [Untampered(s) EXCEPT ![f] = FlipBit(@, idx, bit),
                          !.tamper = [field |-> f, idx |-> idx, bit |-> bit]]

TamperFields == {"data", "iv", "mac"}

AllTampers(s) ==
    UNION {{Tampered(s, f, idx, bit) : idx \in 1..Len(s.e[f]), bit \in 0..7} :
              f \in TamperFields}

SomeTampers(s) ==
    UNION {{Tampered(s, f, idx, bit) : idx \in {1, Len(s.e[f])}, bit \in {0, 7}} :
              f \in TamperFields}

\* arguments no aesEncrypt made: well-shaped, and with one of them missing
Forged ==
    [data |-> [i \in 1..16 |-> i], iv |-> [i \in 1..16 |-> 2 * i],
     mac |-> [i \in 1..32 |-> 3 * i], key |-> SampleKey,
     src |-> NoSrc, tamper |-> [field |-> "forged", idx |-> 0, bit |-> 0]]

Incomplete ==
    {[Forged EXCEPT ![f] = v] : f \in TamperFields, v \in {Null, <<>>}}
        \cup {[Forged EXCEPT !.key = k] : k \in BadKeys}

DecryptInputs ==
    {Forged} \cup Incomplete
        \cup UNION {{Untampered(s)} \cup SomeTampers(s) : s \in store}

CompareInputs == UNION {BufsOfLen(n) : n \in 0..MaxCmpLen}

HkdfSizes == {0, 1, 31, 32, 33, 64, 100}

HkdfInfos == {fromUtf8ToArray(InfoEnc), fromUtf8ToArray(InfoMac)}

\* "pe" with an acute accent on the e, the empty text, a number, undefined
PasswordInputs == {Str(<<112, 233>>), Str(<<>>), Num(5), Undefined}

\* "a@b", the empty text, a number, undefined
EmailInputs == {Str(<<97, 64, 98>>), Str(<<>>), Num(0), Undefined}

(* ------------------------------ the caller ----------------------------- *)
\* The awaiting caller resumes with the outcome of its call: it keeps the
\* first EncryptedObject and the first key it is given, and the flow is free
\* for another call.
Settle(p) ==
    /\ Ended(calls[p])
    /\ calls' = [calls EXCEPT ![p] = NoCall]
    /\ store' = IF calls[p].op = "aesEncrypt" /\ calls[p].status = "returned"
                   /\ store = {}
                THEN {[d |-> calls[p].data, e |-> calls[p].obj]}
                ELSE store
    /\ keyring' = IF calls[p].op = "makeKey" /\ calls[p].status = "returned"
                     /\ keyring = {}
                  THEN {[password |-> calls[p].password,
                         email |-> calls[p].email, key |-> calls[p].newKey]}
                  ELSE keyring

(* --------------------------- specifications ---------------------------- *)
Init ==
    /\ calls = [p \in Flows |-> NoCall]
    /\ store = {}
    /\ keyring = {}

\* One caller: any operation, one call at a time.  Each action below is
\* the engine's answer to the call's pending request and the call's code up
\* to its next await (or its return).
Next ==
    \/ \E a \in CompareInputs, b \in CompareInputs : CallCompare(1, a, b)
    \/ \E d \in DataInputs, k \in KeyInputs : CallAesEncrypt(1, d, k)
    \/ \E in \in DecryptInputs : CallAesDecrypt(1, in)
    \/ \E in \in DecryptInputs : CallDecrypt(1, in)
    \/ \E info \in HkdfInfos, size \in HkdfSizes :
          CallHkdfExpand(1, SampleKey.encKey, info, size)
    \/ \E pw \in PasswordInputs, em \in EmailInputs : CallMakeKey(1, pw, em)
    \/ CmpRandomBytes(1)
    \/ CmpHmac1(1)
    \/ CmpHmac2(1)
    \/ EncRandomBytes(1)
    \/ EncEncrypt(1)
    \/ EncHmac(1)
    \/ DecHmac(1)
    \/ DecDecrypt(1)
    \/ HkdfHmac(1)
    \/ MkScrypt(1)
    \/ MkPbkdf2(1)
    \/ Settle(1)

Spec == Init /\ [][Next]_vars

\* Concurrent callers: aesEncrypt and aesDecrypt calls of NumFlows flows,
\* interleaved at every await.  A new call takes the lowest flow that is free.
FreeFlows ==
    {p \in Flows : /\ calls[p].status = "idle"
                   /\ \A q \in 1..(p - 1) : calls[q].status # "idle"}

ConcData == {[i \in 1..MaxDataLen |-> 200]}

ConcDecryptInputs ==
    UNION {{Untampered(s), Tampered(s, "mac", 1, 0)} : s \in store}

NextConc ==
    \/ \E p \in FreeFlows, d \in ConcData : CallAesEncrypt(p, d, SampleKey)
    \/ \E p \in FreeFlows, in \in ConcDecryptInputs : CallAesDecrypt(p, in)
    \/ \E p \in Flows : EncRandomBytes(p)
    \/ \E p \in Flows : EncEncrypt(p)
    \/ \E p \in Flows : EncHmac(p)
    \/ \E p \in Flows : DecHmac(p)
    \/ \E p \in Flows : CmpRandomBytes(p)
    \/ \E p \in Flows : CmpHmac1(p)
    \/ \E p \in Flows : CmpHmac2(p)
    \/ \E p \in Flows : DecDecrypt(p)
    \/ \E p \in Flows : Settle(p)

SpecConc == Init /\ [][NextConc]_vars

\* Tampering: aesDecrypt is given the fields of the held EncryptedObject, as
\* they are or with any one bit of any one of them flipped.
NextTamper ==
    \/ \E d \in DataInputs : CallAesEncrypt(1, d, SampleKey)
    \/ calls[1].status = "idle"
          /\ \E s \in store : \E in \in AllTampers(s) \cup {Untampered(s)} :
                CallAesDecrypt(1, in)
    \/ EncRandomBytes(1)
    \/ EncEncrypt(1)
    \/ EncHmac(1)
    \/ DecHmac(1)
    \/ CmpRandomBytes(1)
    \/ CmpHmac1(1)
    \/ CmpHmac2(1)
    \/ DecDecrypt(1)
    \/ Settle(1)

SpecTamper == Init /\ [][NextTamper]_vars

(* ------------------------------- claims -------------------------------- *)
InLog(c, name) == \E j \in 1..Len(c.engineLog) : c.engineLog[j] = name

\* the call's aesDecrypt arguments are exactly the fields of a held object
FieldsOf(c, e) ==
    c.data = e.data /\ c.iv = e.iv /\ c.mac = e.mac /\ c.key = e.key

\* the call's arguments are the fields of e with one bit of field f flipped
OneBitOff(c, e, f, idx, bit) ==
    /\ f \in TamperFields /\ idx \in 1..Len(e[f]) /\ bit \in 0..7
    /\ c[f] = FlipBit(e[f], idx, bit)
    /\ \A g \in TamperFields \ {f} : c[g] = e[g]
    /\ c.key = e.key

\* C1: aesDecrypt of the data, iv and mac of an object aesEncrypt(d, k)
\* returned, under the same key k, succeeds and returns exactly d.
C1_RoundTrip ==
    \A p \in Flows :
        LET c == calls[p]
        IN  (/\ c.op = "aesDecrypt" /\ Ended(c)
             /\ c.src \in store /\ FieldsOf(c, c.src.e))
            => (c.status = "returned" /\ c.plain = c.src.d)

C1_Witness ==
    \E p \in Flows :
        LET c == calls[p]
        IN  /\ c.op = "aesDecrypt" /\ c.status = "returned"
            /\ c.src \in store /\ FieldsOf(c, c.src.e)
            /\ Len(c.src.d) > 0 /\ c.plain = c.src.d /\ c.plain # c.data

\* C2: aesDecrypt of an object aesEncrypt returned, with any single bit of
\* its data, iv or mac flipped and the same key, ends with the
\* AuthenticationFailure error, never returns, never holds a plaintext and
\* never asks the engine to decrypt.
C2_TamperDetected ==
    \A p \in Flows :
        LET c == calls[p]
        IN  (/\ c.op = "aesDecrypt" /\ c.src \in store
             /\ OneBitOff(c, c.src.e, c.tamper.field, c.tamper.idx, c.tamper.bit))
            => /\ c.status # "returned"
               /\ c.plain = Null
               /\ ~InLog(c, "decrypt")
               /\ Ended(c) => (c.status = "thrown" /\ c.error = AuthenticationFailure)

C2_Witness ==
    \E p \in Flows :
        LET c == calls[p]
        IN  /\ c.op = "aesDecrypt" /\ c.src \in store
            /\ OneBitOff(c, c.src.e, "iv", IvLen, 7)
            /\ c.status = "thrown" /\ c.error = AuthenticationFailure

\* C3: in aesDecrypt (called directly or by decrypt), the engine's decrypt is
\* asked for only after the MAC over iv || data has been computed and
\* compare(mac, computedMac) has returned true; after a comparison that
\* returned false it is never asked for.
C3_MacGatesDecrypt ==
    \A p \in Flows :
        LET c == calls[p]
        IN  c.op \in {"aesDecrypt", "decrypt"} =>
            /\ (InLog(c, "decrypt") \/ c.pc = "dec_decrypt") =>
                  /\ c.macsMatch = "true"
                  /\ c.computedMac = EngineHmac(c.iv \o c.data, c.key.macKey)
                  /\ c.a = c.mac /\ c.b = c.computedMac /\ c.equal = "true"
                  /\ SubSeq(c.engineLog, 1, 4)
                        = <<"hmac", "randomBytes", "hmac", "hmac">>
                  /\ \A j \in 1..4 : c.engineLog[j] # "decrypt"
            /\ c.macsMatch = "false" =>
                  /\ ~InLog(c, "decrypt")
                  /\ c.status = "thrown" /\ c.error = AuthenticationFailure

C3_Witness ==
    \E p \in Flows :
        LET c == calls[p]
        IN  /\ c.op = "decrypt" /\ c.status = "returned"
            /\ c.engineLog = <<"hmac", "randomBytes", "hmac", "hmac", "decrypt">>
            /\ c.macsMatch = "true"

\* a password or email that is empty or not a text
NotText(v) == v.type # "string" \/ v.val = <<>>

\* C4: aesEncrypt with empty or missing data or an incomplete key, aesDecrypt
\* with empty or missing data, iv or mac or an incomplete key, and makeKey
\* with an empty or non-text password or email fail with InvalidArgument
\* without asking the engine for anything.
C4_FailFast ==
    \A p \in Flows :
        LET c == calls[p]
            bad ==
                \/ c.op = "aesEncrypt" /\ (Missing(c.data) \/ BadKey(c.key))
                \/ /\ c.op \in {"aesDecrypt", "decrypt"}
                   /\ (Missing(c.data) \/ Missing(c.iv) \/ Missing(c.mac)
                          \/ BadKey(c.key))
                \/ c.op = "makeKey" /\ (NotText(c.password) \/ NotText(c.email))
        IN  /\ bad => /\ c.status = "thrown" /\ c.error \in InvalidArgument
                      /\ c.engineLog = <<>>
            /\ (c.status = "thrown" /\ c.error \in InvalidArgument)
                  => c.engineLog = <<>>

C4_Witness ==
    \E p \in Flows :
        LET c == calls[p]
        IN  /\ c.op = "makeKey" /\ c.password = Num(5) /\ ~NotText(c.email)
            /\ c.status = "thrown" /\ c.error \in InvalidArgument
            /\ c.engineLog = <<>>

\* C5: for buffers a and b of equal length, compare ends with true when
\* a = b and with false when a # b, whatever key the engine drew.
C5_CompareDecides ==
    \A p \in Flows :
        LET c == calls[p]
        IN  (c.equal # "unset" /\ Len(c.a) = Len(c.b))
            => /\ c.macKey \in RandomBytes(32)
               /\ (c.equal = "true") <=> (c.a = c.b)

C5_Witness ==
    \E p \in Flows :
        LET c == calls[p]
        IN  /\ c.op = "compare" /\ c.status = "returned" /\ c.equal = "false"
            /\ Len(c.a) = Len(c.b) /\ c.a # c.b

\* T(1) || ... || T(n) with T(0) empty and
\* T(i) = HMAC(T(i-1) || info || byte(i), prk)
RECURSIVE HkdfT(_, _, _, _, _)
HkdfT(prk, info, prev, i, n) ==
    IF i > n THEN <<>>
    ELSE LET ti == EngineHmac(prev \o info \o <<i>>, prk)
         IN  ti \o HkdfT(prk, info, ti, i + 1, n)

HkdfFirst(prk, info, size) ==
    SubSeq(HkdfT(prk, info, <<>>, 1, (size + 31) \div 32), 1, size)

\* C6: hkdfExpand(prk, info, size) returns, for every size in
\* {0, 1, 31, 32, 33, 64, 100}, exactly the first size bytes of
\* T(1) || ... || T(ceil(size / 32)); it does not fail.
C6_HkdfExactSize ==
    \A p \in Flows :
        LET c == calls[p]
        IN  (c.op = "hkdfExpand" /\ Ended(c)
                /\ c.size \in {0, 1, 31, 32, 33, 64, 100})
            => /\ c.status = "returned"
               /\ Len(c.okm) = c.size
               /\ c.okm = HkdfFirst(c.prk, c.info, c.size)

\* the bundle the fixed derivation gives for a password and an email
DerivedKey(password, email) ==
    LET master == EngineScrypt(Utf8Encode(password.val), Utf8Encode(email.val),
                               16384, 8, 1, 32)
    IN  SymmetricCryptoKey(
            EnginePbkdf2(master, Utf8Encode(password.val), 1, 32),
            HkdfFirst(master, Utf8Encode(InfoEnc), 32),
            HkdfFirst(master, Utf8Encode(InfoMac), 32))

\* C7: makeKey returns (pbkdf2(master, password, 1, 32),
\* hkdfExpand(master, "enc", 32), hkdfExpand(master, "mac", 32)) for
\* master = scrypt(password, utf8(email), 16384, 8, 1, 32); two calls with the
\* same password and email return the same bundle, whatever ran in between.
C7_MakeKeyDerivation ==
    /\ \A p \in Flows :
          LET c == calls[p]
          IN  (c.op = "makeKey" /\ c.status = "returned")
              => /\ c.newKey = DerivedKey(c.password, c.email)
                 /\ \A k \in keyring :
                       (k.password = c.password /\ k.email = c.email)
                           => k.key = c.newKey
    /\ \A k1 \in keyring, k2 \in keyring :
          (k1.password = k2.password /\ k1.email = k2.email) => k1.key = k2.key

C7_Witness ==
    \E p \in Flows :
        LET c == calls[p]
        IN  /\ c.op = "makeKey" /\ c.status = "returned"
            /\ c.password = Str(<<112, 233>>)
            /\ \E k \in keyring : k.password = c.password /\ k.email = c.email
            /\ \E s \in store : s.e.key = c.newKey

\* what aesEncrypt returns when it runs alone and the engine answers iv
AesEncryptAlone(data, key, iv) ==
    LET enc == EngineEncrypt(data, key.encKey, iv)
    IN  [key |-> key, iv |-> iv, data |-> enc,
         mac |-> EngineHmac(iv \o enc, key.macKey)]

\* how aesDecrypt ends when it runs alone and the engine answers rk
AesDecryptAlone(data, iv, mac, key, rk) ==
    LET expected == EngineHmac(iv \o data, key.macKey)
    IN  IF EngineHmac(mac, rk) = EngineHmac(expected, rk)
        THEN [status |-> "returned", error |-> "none",
              plain |-> EngineDecrypt(data, key.encKey, iv).out]
        ELSE [status |-> "thrown", error |-> AuthenticationFailure,
              plain |-> Null]

\* every call holds the iv, MAC input and comparison key it obtained itself,
\* and an ended call ended as it would have alone
OwnResults ==
    \A p \in Flows :
        LET c == calls[p]
        IN  /\ (c.op = "aesEncrypt" /\ c.iv # Null)
               => c.rand = <<c.iv>> /\ c.obj.iv = c.iv
            /\ (c.op = "aesEncrypt" /\ c.macData # Null)
               => c.macData = c.rand[1] \o EngineEncrypt(c.data, c.key.encKey, c.rand[1])
            /\ (c.op = "aesEncrypt" /\ c.status = "returned")
               => c.obj = AesEncryptAlone(c.data, c.key, c.rand[1])
            /\ (c.op = "aesDecrypt" /\ c.macData # Null)
               => c.macData = c.iv \o c.data
            /\ (c.op = "aesDecrypt" /\ c.macKey # Null)
               => c.rand = <<c.macKey>>
            /\ (c.op = "aesDecrypt" /\ Ended(c))
               => [status |-> c.status, error |-> c.error, plain |-> c.plain]
                     = AesDecryptAlone(c.data, c.iv, c.mac, c.key, c.rand[1])

\* a step of one call changes nothing of any other call
OwnStep ==
    \A p \in Flows :
        calls'[p] # calls[p] => \A q \in Flows \ {p} : calls'[q] = calls[q]

\* C8: in every interleaving of concurrent aesEncrypt and aesDecrypt calls,
\* each step changes the locals of one call only, each call uses the iv, MAC
\* input and comparison key it obtained itself, and each call ends as it would
\* have alone with the same arguments and the same answers of the engine.
C8_CallsIndependent == []OwnResults /\ [][OwnStep]_vars

C8_Witness ==
    /\ calls[1].op = "aesEncrypt" /\ calls[2].op = "aesEncrypt"
    /\ calls[1].status = "returned" /\ calls[2].status = "returned"
    /\ calls[1].iv # calls[2].iv
    /\ calls[1].engineLog = calls[2].engineLog

\* the 1-based position of the first byte at which two buffers differ
FirstDiff(x, y) ==
    CHOOSE i \in 1..Len(y) : x[i] # y[i] /\ \A j \in 1..(i - 1) : x[j] = y[j]

C10_EncryptThenMac ==
    \A p \in Flows :
        LET c == calls[p]
            e == c.obj
        IN  (c.op = "aesEncrypt" /\ c.status = "returned")
            => /\ e.key = c.key
               /\ c.rand = <<e.iv>> /\ Len(e.iv) = 16
               /\ c.engineLog = <<"randomBytes", "encrypt", "hmac">>
               /\ e.data = EngineEncrypt(c.data, c.key.encKey, e.iv)
               /\ e.mac = EngineHmac(e.iv \o e.data, c.key.macKey)
               /\ e.mac # EngineHmac(e.data \o e.iv, c.key.macKey)
               /\ c.key.encKey # c.key.macKey
                     => /\ e.mac # EngineHmac(e.iv \o e.data, c.key.encKey)
                        /\ e.data # EngineEncrypt(c.data, c.key.macKey, e.iv)

C10_Witness ==
    \E p \in Flows :
        LET c == calls[p]
        IN  /\ c.op = "aesEncrypt" /\ c.status = "returned"
            /\ \E k \in keyring : c.key = k.key
            /\ c.key.encKey # c.key.macKey
====
